---- MODULE Spec2Model ----
(***************************************************************************)
(* IBN-Simulator: the intent store (app/store.py), the request path        *)
(* (app/main.py: create_intent, create_intent_nl) and the assurance loop   *)
(* (app/assurance.py: telemetry_loop) as one state machine.                *)
(*                                                                         *)
(* Every store call holds _db_lock for its whole body, so one store call   *)
(* is one atomic step; the threads interleave between store calls.         *)
(* Numbers: latency in ms, bandwidth in Mbps, availability in hundredths   *)
(* of a percent (9990 = 99.90 %), sleeps in quarters of a time unit.       *)
(***************************************************************************)
EXTENDS Integers, Sequences, FiniteSets, TLC

\* ------------------------------------------------------------------ bounds
\* intents the assurance loop samples (and then processes) in one run
MaxSamples == 2

\* --------------------------------------------------------------- constants
LLM_RETRY_ATTEMPTS == 2
BackoffStart == 4
BackoffNum == 3
BackoffDen == 2

\* intents.db outlives the process (store.py:8-23, CREATE TABLE IF NOT EXISTS):
\* Persisted are the intents already stored when the process starts, Live
\* the intents the requests of this run create (one uuid4 each)
Persisted == {1}
Live == {2}
Intents == Persisted \cup Live

VARIABLES
    db,               \* store.py: table intents, intent_id -> row
    telemetry_state,  \* assurance.py:17, intent_id -> last sample
    \* ---- request path, one request per intent identifier (uuid4)
    rpc,              \* position of the request creating intent r
    kind,             \* "structured" (POST /intents) or "nl" (POST /intent_nl)
    policy,           \* the request's local `policy`
    \* ---- assurance loop thread
    lpc,              \* position of telemetry_loop
    samples,          \* intents sampled so far
    rows,             \* rows still to iterate in this tick
    intent_id,        \* loop local intent_id (0: none yet)
    metrics,          \* loop local metrics
    intent,           \* loop local intent (the fields the loop reads)
    attempt,          \* _call_llm_with_retries: attempt
    backoff,          \* _call_llm_with_retries: backoff
    sleeps,           \* sleeps taken by the current _call_llm_with_retries
    new_policy,       \* loop local new_policy
    \* ---- history of the current tick / current intent
    listed,           \* the rows as listed at the start of this tick
    sampled,          \* identifiers sampled in this tick
    pre,              \* the intent's row when its processing started
    executor_called,  \* whether the loop invoked apply_policy for this intent
    \* ---- store.py statement by statement (specification SpecStore)
    _db_lock,         \* store.py:6, "free" or the thread holding the lock
    calls,            \* thread -> the store calls it still has to make
    spc,              \* thread -> its position inside the current store call
    log,              \* thread -> append_audit's local `log`
    committed         \* the messages whose UPDATE took effect, in that order

vars == <<db, telemetry_state, rpc, kind, policy, lpc, samples, rows,
          intent_id, metrics, intent, attempt, backoff, sleeps, new_policy,
          listed, sampled, pre, executor_called,
          _db_lock, calls, spc, log, committed>>

storeVars == <<db>>
\* the inside of a store call: one step of Spec is a whole store call, so
\* these change under SpecStore only
callVars == <<_db_lock, calls, spc, log, committed>>
reqVars == <<rpc, kind, policy>>
loopLocals == <<samples, rows, intent_id, metrics, intent, attempt, backoff,
                sleeps, new_policy>>
histVars == <<listed, sampled, pre, executor_called>>
\* what a step of the request path leaves alone
loopVars == <<telemetry_state, lpc, loopLocals, histVars>>

\* ----------------------------------------------------------------- values
Eligible == {"deployed", "assured"}

NoPolicy == [intent_id |-> 0]
\* schemas.Policy: the field the store and the loop can tell policies apart by
Policies == [intent_id : Intents]

EmptySLA == [k \in {} |-> 0]
FullSLA == [latency_ms |-> 50, availability_pct |-> 9990, min_bandwidth_mbps |-> 100]
\* what POST /intents accepts for payload.sla: any dict
StructuredSLAs == {FullSLA, EmptySLA}
\* what parse_intent_from_text returns: a validated schemas.SLA (all fields)
ParsedSLAs == {FullSLA}

\* _simulate_metrics_for_intent: latency in [20,120], availability in
\* [98,100], bandwidth in [50,400]
SampleOk == [latency |-> 40, availability |-> 9995, bandwidth |-> 150]
SampleBreach == [latency |-> 80, availability |-> 9995, bandwidth |-> 150]
SimulatedMetrics == {SampleOk, SampleBreach}
NoMetrics == [latency |-> 0, availability |-> 0, bandwidth |-> 0]

\* ------------------------------------------------------- the SLA evaluator
\* Python floats with float("inf"): <<0, v>> is the finite v, <<1, 0>> is inf
Fin(v) == <<0, v>>
FloatInf == <<1, 0>>
Less(a, b) == \/ a[1] < b[1]
              \/ a[1] = 0 /\ b[1] = 0 /\ a[2] < b[2]
Greater(a, b) == Less(b, a)

\* mutant of Get: sla.get(key, 0) for every key (a zero latency ceiling)
GetZeroDefault(d, key, default) == IF key \in DOMAIN d THEN Fin(d[key]) ELSE Fin(0)

\* dict.get(key, default)
Get(d, key, default) == IF key \in DOMAIN d THEN Fin(d[key]) ELSE default

\* mutant of _should_remediate: >= and <= in place of > and <
should_remediate_inclusive(sla, m) ==
    \/ ~Less(Fin(m.latency), Get(sla, "latency_ms", FloatInf))
    \/ ~Greater(Fin(m.availability), Get(sla, "availability_pct", Fin(0)))
    \/ ~Greater(Fin(m.bandwidth), Get(sla, "min_bandwidth_mbps", Fin(0)))

_should_remediate(sla, m) ==
    \/ Greater(Fin(m.latency), Get(sla, "latency_ms", FloatInf))
    \/ Less(Fin(m.availability), Get(sla, "availability_pct", Fin(0)))
    \/ Less(Fin(m.bandwidth), Get(sla, "min_bandwidth_mbps", Fin(0)))

\* ---------------------------------------------------------------- store.py
Row(sla, status) ==
    [sla |-> sla, status |-> status, policy |-> NoPolicy, audit_log |-> <<>>]

\* save_intent: INSERT; the primary key rejects a second row
save_intent(d, id, sla, status) ==
    IF id \in DOMAIN d THEN d ELSE d @@ (id :> Row(sla, status))

\* mutant of update_status: the UPDATE matches no row
update_status_lost(d, id, status) == d

\* update_status: UPDATE ... WHERE intent_id=? (no row: nothing changes)
update_status(d, id, status) ==
    IF id \in DOMAIN d THEN [d EXCEPT ![id].status = status] ELSE d

\* mutant of attach_policy: the UPDATE matches no row
attach_policy_lost(d, id, p) == d

\* attach_policy: UPDATE ... SET policy=?
attach_policy(d, id, p) ==
    IF id \in DOMAIN d THEN [d EXCEPT ![id].policy = p] ELSE d

\* mutant of append_audit: the stored log is not read back before the write
append_audit_overwrite(d, id, msg) ==
    IF id \in DOMAIN d THEN [d EXCEPT ![id].audit_log = <<msg>>] ELSE d

\* append_audit: read the log, append msg, write it back, under the lock
append_audit(d, id, msg) ==
    IF id \in DOMAIN d
    THEN [d EXCEPT ![id].audit_log = Append(d[id].audit_log, msg)]
    ELSE d

\* _list_intents_from_db: SELECT intent_id, status FROM intents (the rows
\* come in insertion order: the persisted ones, then the live ones)
RECURSIVE ListFrom(_, _)
ListFrom(d, i) ==
    IF i \notin Intents THEN <<>>
    ELSE IF i \in DOMAIN d
         THEN <<[intent_id |-> i, status |-> d[i].status]>> \o ListFrom(d, i + 1)
         ELSE ListFrom(d, i + 1)
_list_intents_from_db(d) == ListFrom(d, 1)

\* no row (the history variable `pre` before any row was read)
NoRow == Row(EmptySLA, "none")

\* a store call may raise (sqlite3.Error) instead of taking effect
Raise == db' = db

\* --------------------------------------------------- external collaborators
\* llm_translate_intent: a validated Policy (the fallback copies the intent's
\* identifier; Gemini's answer is only validated against the schema) or an
\* exception
TranslateOk == Policies
\* apply_policy: {"applied": succeeded}; the call sites also handle a raise
ApplyResults == {"applied", "not_applied", "raise"}

\* ------------------------------------------------------- main.py: requests
GoReq(r, to) == rpc' = [rpc EXCEPT ![r] = to]

\* one store call of request r: it takes effect and the request moves to
\* `ok`, or it raises and the request moves to `exc`
ReqStore(r, newdb, ok, exc) ==
    \/ /\ db' = newdb
       /\ GoReq(r, ok)
    \/ /\ Raise
       /\ GoReq(r, exc)

\* a request arrives; create_intent_nl first parses the text (main.py:103-107)
ReqStart(r) ==
    /\ rpc[r] = "idle"
    /\ \E k \in {"structured", "nl"} :
          /\ kind' = [kind EXCEPT ![r] = k]
          /\ \/ GoReq(r, "save")
             \/ /\ k = "nl"          \* parse_intent_from_text raised: 400
                /\ GoReq(r, "done")
    /\ UNCHANGED <<storeVars, policy, loopVars, callVars>>

\* main.py:54 / main.py:113  save_intent(intent, status="submitted")
ReqSave(r) ==
    /\ rpc[r] = "save"
    /\ \E s \in (IF kind[r] = "nl" THEN ParsedSLAs ELSE StructuredSLAs) :
          ReqStore(r, save_intent(db, r, s, "submitted"),
                   IF kind[r] = "nl" THEN "audit_created" ELSE "translate",
                   "done")
    /\ UNCHANGED <<kind, policy, loopVars, callVars>>

\* main.py:114  append_audit(intent_id, "Intent created from natural language")
ReqAuditCreated(r) ==
    /\ rpc[r] = "audit_created"
    /\ ReqStore(r, append_audit(db, r, "Intent created from natural language"),
                "translate", "done")
    /\ UNCHANGED <<kind, policy, loopVars, callVars>>

\* main.py:60 / main.py:120  policy = llm_translate_intent(intent)
ReqTranslate(r) ==
    /\ rpc[r] = "translate"
    /\ \/ \E p \in TranslateOk :
             /\ policy' = [policy EXCEPT ![r] = p]
             /\ GoReq(r, "attach")
       \/ /\ policy' = policy
          /\ GoReq(r, "audit_translation_failed")
    /\ UNCHANGED <<storeVars, kind, loopVars, callVars>>

\* main.py:62  append_audit(intent_id, f"Translation failed: {e}")
ReqAuditTranslationFailed(r) ==
    /\ rpc[r] = "audit_translation_failed"
    /\ ReqStore(r, append_audit(db, r, "Translation failed"),
                "error_translation", "done")
    /\ UNCHANGED <<kind, policy, loopVars, callVars>>

\* main.py:63  update_status(intent_id, "error")
ReqErrorTranslation(r) ==
    /\ rpc[r] = "error_translation"
    /\ ReqStore(r, update_status(db, r, "error"), "done", "done")
    /\ UNCHANGED <<kind, policy, loopVars, callVars>>

\* main.py:68  attach_policy(intent_id, policy.dict())
ReqAttach(r) ==
    /\ rpc[r] = "attach"
    /\ ReqStore(r, attach_policy(db, r, policy[r]),
                "set_deploying", "audit_attach_failed")
    /\ UNCHANGED <<kind, policy, loopVars, callVars>>

\* main.py:69  update_status(intent_id, "deploying")
ReqSetDeploying(r) ==
    /\ rpc[r] = "set_deploying"
    /\ ReqStore(r, update_status(db, r, "deploying"),
                "apply", "audit_attach_failed")
    /\ UNCHANGED <<kind, policy, loopVars, callVars>>

\* main.py:71  append_audit(intent_id, f"Attach policy failed: {e}")
ReqAuditAttachFailed(r) ==
    /\ rpc[r] = "audit_attach_failed"
    /\ ReqStore(r, append_audit(db, r, "Attach policy failed"),
                "error_attach", "done")
    /\ UNCHANGED <<kind, policy, loopVars, callVars>>

\* main.py:72  update_status(intent_id, "error")
ReqErrorAttach(r) ==
    /\ rpc[r] = "error_attach"
    /\ ReqStore(r, update_status(db, r, "error"), "done", "done")
    /\ UNCHANGED <<kind, policy, loopVars, callVars>>

\* main.py:77-78  res = apply_policy(policy.dict()); if res.get("applied")
ReqApply(r) ==
    /\ rpc[r] = "apply"
    /\ \E res \in ApplyResults :
          GoReq(r, CASE res = "applied" -> "set_deployed"
                     [] res = "not_applied" -> "error_not_applied"
                     [] OTHER -> "error_exception")
    /\ policy' = [policy EXCEPT ![r] = NoPolicy]   \* last read of the local
    /\ UNCHANGED <<storeVars, kind, loopVars, callVars>>

\* main.py:79  update_status(intent_id, "deployed")
ReqSetDeployed(r) ==
    /\ rpc[r] = "set_deployed"
    /\ ReqStore(r, update_status(db, r, "deployed"),
                "audit_applied", "error_exception")
    /\ UNCHANGED <<kind, policy, loopVars, callVars>>

\* main.py:80-81  append_audit(intent_id, "Policy applied successfully"); return
ReqAuditApplied(r) ==
    /\ rpc[r] = "audit_applied"
    /\ ReqStore(r,
                append_audit(db, r, IF kind[r] = "nl"
                                    THEN "Policy applied successfully (from NL)"
                                    ELSE "Policy applied successfully"),
                "done", "error_exception")
    /\ UNCHANGED <<kind, policy, loopVars, callVars>>

\* main.py:83  update_status(intent_id, "error")
ReqErrorNotApplied(r) ==
    /\ rpc[r] = "error_not_applied"
    /\ ReqStore(r, update_status(db, r, "error"),
                "audit_not_applied", "error_exception")
    /\ UNCHANGED <<kind, policy, loopVars, callVars>>

\* main.py:84-87  append_audit(...); raise HTTPException, which create_intent
\* re-raises (main.py:86-87) and create_intent_nl catches as an Exception
\* (main.py:146)
ReqAuditNotApplied(r) ==
    /\ rpc[r] = "audit_not_applied"
    /\ ReqStore(r,
                append_audit(db, r, IF kind[r] = "nl"
                                    THEN "Policy application failed (from NL)"
                                    ELSE "Policy application failed"),
                IF kind[r] = "nl" THEN "error_exception" ELSE "done",
                "error_exception")
    /\ UNCHANGED <<kind, policy, loopVars, callVars>>

\* main.py:89 / main.py:147  update_status(intent_id, "error")
ReqErrorException(r) ==
    /\ rpc[r] = "error_exception"
    /\ ReqStore(r, update_status(db, r, "error"), "audit_exception", "done")
    /\ UNCHANGED <<kind, policy, loopVars, callVars>>

\* main.py:90 / main.py:148  append_audit(intent_id, f"Policy application exception: {e}")
ReqAuditException(r) ==
    /\ rpc[r] = "audit_exception"
    /\ ReqStore(r, append_audit(db, r, "Policy application exception"),
                "done", "done")
    /\ UNCHANGED <<kind, policy, loopVars, callVars>>

\* --------------------------------------------- assurance.py: telemetry_loop
GoLoop(to) == lpc' = to

\* one store call of the loop: it takes effect and the loop moves to `ok`, or
\* it raises and the loop moves to `exc` ("crashed": no handler encloses the
\* call, the exception leaves telemetry_loop and the thread ends)
LoopStore(newdb, ok, exc) ==
    \/ /\ db' = newdb
       /\ GoLoop(ok)
    \/ /\ Raise
       /\ GoLoop(exc)

\* assurance.py:67  rows = _list_intents_from_db(), [] when the query raises
LoopList ==
    /\ lpc = "list"
    /\ \/ rows' = _list_intents_from_db(db)
       \/ rows' = <<>>
    /\ listed' = rows'
    /\ sampled' = {}
    /\ GoLoop("for")
    /\ UNCHANGED <<db, telemetry_state, reqVars, callVars, samples, intent_id, metrics,
                   intent, attempt, backoff, sleeps, new_policy, pre,
                   executor_called>>

\* mutant of LoopFor: the next row is taken while the translator call of the
\* current intent is still running
LoopForEager ==
    /\ lpc \in {"for", "translate"}
    /\ IF rows = <<>>
       THEN /\ GoLoop("sleep")
            /\ rows' = rows
            /\ intent_id' = 0
       ELSE /\ rows' = Tail(rows)
            /\ IF Head(rows).status \in Eligible
               THEN /\ intent_id' = Head(rows).intent_id
                    /\ GoLoop("sample")
               ELSE /\ intent_id' = 0
                    /\ GoLoop("for")
    /\ metrics' = NoMetrics
    /\ intent' = [sla |-> EmptySLA]
    /\ new_policy' = NoPolicy
    /\ attempt' = 0
    /\ backoff' = BackoffStart
    /\ sleeps' = <<>>
    /\ pre' = NoRow
    /\ executor_called' = FALSE
    /\ UNCHANGED <<storeVars, telemetry_state, reqVars, callVars, samples, listed, sampled>>

\* assurance.py:68-75  next row; rows of another status are skipped.
\* The locals of the iteration that ended are dead here (each is assigned
\* again before it is read), so they are put back to their initial values.
LoopFor ==
    /\ lpc = "for"
    /\ IF rows = <<>>
       THEN /\ GoLoop("sleep")
            /\ rows' = rows
            /\ intent_id' = 0
       ELSE /\ rows' = Tail(rows)
            /\ IF Head(rows).status \in Eligible
               THEN /\ intent_id' = Head(rows).intent_id
                    /\ GoLoop("sample")
               ELSE /\ intent_id' = 0
                    /\ GoLoop("for")
    /\ metrics' = NoMetrics
    /\ intent' = [sla |-> EmptySLA]
    /\ new_policy' = NoPolicy
    /\ attempt' = 0
    /\ backoff' = BackoffStart
    /\ sleeps' = <<>>
    /\ pre' = NoRow
    /\ executor_called' = FALSE
    /\ UNCHANGED <<storeVars, telemetry_state, reqVars, callVars, samples, listed, sampled>>

\* assurance.py:77-78  metrics = _simulate_metrics_for_intent(intent_id);
\* telemetry_state[intent_id] = metrics
LoopSample ==
    /\ lpc = "sample"
    /\ samples < MaxSamples
    /\ samples' = samples + 1
    /\ \E m \in SimulatedMetrics :
          /\ metrics' = m
          /\ telemetry_state' = [telemetry_state EXCEPT ![intent_id] = m]
    /\ sampled' = sampled \cup {intent_id}
    /\ pre' = db[intent_id]
    /\ executor_called' = FALSE
    /\ GoLoop("get_intent")
    /\ UNCHANGED <<storeVars, reqVars, callVars, rows, intent_id, intent, attempt,
                   backoff, sleeps, new_policy, listed>>

\* assurance.py:80-83  intent = get_intent(intent_id); a missing row is skipped
LoopGetIntent ==
    /\ lpc = "get_intent"
    /\ \/ /\ UNCHANGED storeVars
          /\ IF intent_id \in DOMAIN db
             THEN /\ intent' = [sla |-> db[intent_id].sla]
                  /\ GoLoop("evaluate")
             ELSE /\ intent' = intent
                  /\ GoLoop("for")
       \/ /\ Raise
          /\ intent' = intent
          /\ GoLoop("crashed")
    /\ UNCHANGED <<telemetry_state, reqVars, callVars, samples, rows, intent_id, metrics,
                   attempt, backoff, sleeps, new_policy, histVars>>

\* assurance.py:85-86  sla = intent.get("sla", {}); if _should_remediate(sla, metrics)
LoopEvaluate ==
    /\ lpc = "evaluate"
    /\ GoLoop(IF _should_remediate(intent.sla, metrics)
              THEN "audit_breach" ELSE "set_assured")
    /\ UNCHANGED <<storeVars, telemetry_state, reqVars, callVars, loopLocals, histVars>>

\* mutant of LoopSetAssured: the no-breach branch also writes an audit entry
LoopSetAssuredAudited ==
    /\ lpc = "set_assured"
    /\ LoopStore(append_audit(update_status(db, intent_id, "assured"),
                              intent_id, "SLA met"),
                 "for", "crashed")
    /\ UNCHANGED <<telemetry_state, reqVars, callVars, loopLocals, histVars>>

\* assurance.py:127  update_status(intent_id, "assured")
LoopSetAssured ==
    /\ lpc = "set_assured"
    /\ LoopStore(update_status(db, intent_id, "assured"), "for", "crashed")
    /\ UNCHANGED <<telemetry_state, reqVars, callVars, loopLocals, histVars>>

\* assurance.py:87-99  append_audit(intent_id, "SLA breach: ..."), then enter
\* _call_llm_with_retries (attempt = 0, backoff = 1.0)
LoopAuditBreach ==
    /\ lpc = "audit_breach"
    /\ LoopStore(append_audit(db, intent_id, "SLA breach"), "translate", "crashed")
    /\ attempt' = 0
    /\ backoff' = BackoffStart
    /\ sleeps' = <<>>
    /\ UNCHANGED <<telemetry_state, reqVars, callVars, samples, rows, intent_id, metrics,
                   intent, new_policy, histVars>>

\* mutant of NextBackoff: the backoff does not grow
NextBackoffFlat(b) == b

\* assurance.py:62  backoff *= LLM_RETRY_BACKOFF
NextBackoff(b) == (b * BackoffNum) \div BackoffDen

\* assurance.py:52-62  one pass of the retry loop of _call_llm_with_retries
LoopTranslate ==
    /\ lpc = "translate"
    /\ attempt <= LLM_RETRY_ATTEMPTS
    /\ \/ \E p \in TranslateOk :
             /\ new_policy' = p
             /\ GoLoop("attach")
             /\ UNCHANGED <<attempt, backoff, sleeps>>
       \/ /\ attempt' = attempt + 1
          /\ new_policy' = new_policy
          /\ IF attempt + 1 > LLM_RETRY_ATTEMPTS
             THEN /\ GoLoop("audit_llm_failed")
                  /\ UNCHANGED <<backoff, sleeps>>
             ELSE /\ sleeps' = Append(sleeps, backoff)
                  /\ backoff' = NextBackoff(backoff)
                  /\ GoLoop("translate")
    /\ UNCHANGED <<storeVars, telemetry_state, reqVars, callVars, samples, rows, intent_id,
                   metrics, intent, histVars>>

\* assurance.py:100-103  append_audit(..., "Remediation failed: LLM ..."); continue
LoopAuditLlmFailed ==
    /\ lpc = "audit_llm_failed"
    /\ LoopStore(append_audit(db, intent_id, "Remediation failed: LLM unavailable or error"),
                 "for", "crashed")
    /\ UNCHANGED <<telemetry_state, reqVars, callVars, loopLocals, histVars>>

\* assurance.py:106  attach_policy(intent_id, new_policy.dict());
\* _call_llm_with_retries has returned, its locals are gone
LoopAttach ==
    /\ lpc = "attach"
    /\ LoopStore(attach_policy(db, intent_id, new_policy),
                 "audit_attached", "audit_attach_failed")
    /\ attempt' = 0
    /\ backoff' = BackoffStart
    /\ sleeps' = <<>>
    /\ UNCHANGED <<telemetry_state, reqVars, callVars, samples, rows, intent_id, metrics,
                   intent, new_policy, histVars>>

\* assurance.py:107  append_audit(..., "LLM produced remediation policy and attached")
LoopAuditAttached ==
    /\ lpc = "audit_attached"
    /\ LoopStore(append_audit(db, intent_id, "LLM produced remediation policy and attached"),
                 "apply", "audit_attach_failed")
    /\ UNCHANGED <<telemetry_state, reqVars, callVars, loopLocals, histVars>>

\* mutant of LoopAuditAttachFailed: no continue after the handler
LoopAuditAttachFailedGoesOn ==
    /\ lpc = "audit_attach_failed"
    /\ LoopStore(append_audit(db, intent_id, "Remediation failed: cannot attach policy"),
                 "apply", "crashed")
    /\ UNCHANGED <<telemetry_state, reqVars, callVars, loopLocals, histVars>>

\* assurance.py:109-112  append_audit(..., "Remediation failed: cannot attach policy"); continue
LoopAuditAttachFailed ==
    /\ lpc = "audit_attach_failed"
    /\ LoopStore(append_audit(db, intent_id, "Remediation failed: cannot attach policy"),
                 "for", "crashed")
    /\ UNCHANGED <<telemetry_state, reqVars, callVars, loopLocals, histVars>>

\* assurance.py:115-116  res = apply_policy(new_policy.dict()); if res.get("applied")
LoopApply ==
    /\ lpc = "apply"
    /\ \E res \in ApplyResults :
          GoLoop(CASE res = "applied" -> "set_deployed"
                   [] res = "not_applied" -> "audit_apply_failed"
                   [] OTHER -> "audit_apply_raised")
    /\ executor_called' = TRUE
    /\ UNCHANGED <<storeVars, telemetry_state, reqVars, callVars, loopLocals, listed,
                   sampled, pre>>

\* assurance.py:117  update_status(intent_id, "deployed")
LoopSetDeployed ==
    /\ lpc = "set_deployed"
    /\ LoopStore(update_status(db, intent_id, "deployed"),
                 "audit_applied", "audit_apply_error")
    /\ UNCHANGED <<telemetry_state, reqVars, callVars, loopLocals, histVars>>

\* assurance.py:118  append_audit(intent_id, "Remediation applied successfully")
LoopAuditApplied ==
    /\ lpc = "audit_applied"
    /\ LoopStore(append_audit(db, intent_id, "Remediation applied successfully"),
                 "for", "audit_apply_error")
    /\ UNCHANGED <<telemetry_state, reqVars, callVars, loopLocals, histVars>>

\* mutant of LoopAuditApplyFailed: the previous policy is attached again
LoopAuditApplyFailedRollback ==
    /\ lpc = "audit_apply_failed"
    /\ LoopStore(attach_policy(append_audit(db, intent_id, "Remediation application failed"),
                               intent_id, pre.policy),
                 "for", "audit_apply_error")
    /\ UNCHANGED <<telemetry_state, reqVars, callVars, loopLocals, histVars>>

\* assurance.py:121  append_audit(intent_id, "Remediation application failed")
LoopAuditApplyFailed ==
    /\ lpc = "audit_apply_failed"
    /\ LoopStore(append_audit(db, intent_id, "Remediation application failed"),
                 "for", "audit_apply_error")
    /\ UNCHANGED <<telemetry_state, reqVars, callVars, loopLocals, histVars>>

\* assurance.py:123-125  append_audit(intent_id, f"Remediation application error: {e}"),
\* e raised by the executor ("audit_apply_raised") or by a store call of the
\* try block ("audit_apply_error")
LoopAuditApplyError ==
    /\ lpc \in {"audit_apply_error", "audit_apply_raised"}
    /\ LoopStore(append_audit(db, intent_id, "Remediation application error"),
                 "for", "crashed")
    /\ UNCHANGED <<telemetry_state, reqVars, callVars, loopLocals, histVars>>

\* assurance.py:128  time.sleep(TELEMETRY_POLL_SECONDS)
LoopSleep ==
    /\ lpc = "sleep"
    /\ GoLoop("list")
    /\ listed' = <<>>
    /\ sampled' = {}
    /\ UNCHANGED <<storeVars, telemetry_state, reqVars, callVars, loopLocals, pre,
                   executor_called>>

\* ------------------------------------------------------------ specification
\* the two threads that call the store: a request handler and the loop
Threads == {"request", "loop"}

\* no thread is inside a store call
NoCalls ==
    /\ _db_lock = "free"
    /\ calls = [t \in Threads |-> <<>>]
    /\ spc = [t \in Threads |-> "idle"]
    /\ log = [t \in Threads |-> <<>>]
    /\ committed = <<>>

\* rows an earlier run left behind: created by POST /intents and deployed
\* (main.py:54-81)
PersistedRows(i) ==
    {[sla |-> s, status |-> "deployed", policy |-> [intent_id |-> i],
      audit_log |-> <<"Policy applied successfully">>] : s \in {FullSLA}}


Init ==
    /\ db \in {d \in [Persisted -> UNION {PersistedRows(i) : i \in Persisted}] :
                   \A i \in Persisted : d[i] \in PersistedRows(i)}
    /\ telemetry_state = [i \in Intents |-> NoMetrics]
    /\ rpc = [r \in Live |-> "idle"]
    /\ kind = [r \in Live |-> "structured"]
    /\ policy = [r \in Live |-> NoPolicy]
    /\ lpc = "list"
    /\ samples = 0
    /\ rows = <<>>
    /\ intent_id = 0
    /\ metrics = NoMetrics
    /\ intent = [sla |-> EmptySLA]
    /\ attempt = 0
    /\ backoff = BackoffStart
    /\ sleeps = <<>>
    /\ new_policy = NoPolicy
    /\ listed = <<>>
    /\ sampled = {}
    /\ pre = NoRow
    /\ executor_called = FALSE
    /\ NoCalls

Next ==
    \/ \E r \in Live : ReqStart(r)
    \/ \E r \in Live : ReqSave(r)
    \/ \E r \in Live : ReqAuditCreated(r)
    \/ \E r \in Live : ReqTranslate(r)
    \/ \E r \in Live : ReqAuditTranslationFailed(r)
    \/ \E r \in Live : ReqErrorTranslation(r)
    \/ \E r \in Live : ReqAttach(r)
    \/ \E r \in Live : ReqSetDeploying(r)
    \/ \E r \in Live : ReqAuditAttachFailed(r)
    \/ \E r \in Live : ReqErrorAttach(r)
    \/ \E r \in Live : ReqApply(r)
    \/ \E r \in Live : ReqSetDeployed(r)
    \/ \E r \in Live : ReqAuditApplied(r)
    \/ \E r \in Live : ReqErrorNotApplied(r)
    \/ \E r \in Live : ReqAuditNotApplied(r)
    \/ \E r \in Live : ReqErrorException(r)
    \/ \E r \in Live : ReqAuditException(r)
    \/ LoopList
    \/ LoopFor
    \/ LoopSample
    \/ LoopGetIntent
    \/ LoopEvaluate
    \/ LoopSetAssured
    \/ LoopAuditBreach
    \/ LoopTranslate
    \/ LoopAttach
    \/ LoopAuditLlmFailed
    \/ LoopAuditAttached
    \/ LoopAuditAttachFailed
    \/ LoopApply
    \/ LoopSetDeployed
    \/ LoopAuditApplied
    \/ LoopAuditApplyFailed
    \/ LoopAuditApplyError
    \/ LoopSleep

Spec == Init /\ [][Next]_vars


\* ---------------------------------------- the SLA evaluator on its own
\* every subset of the three thresholds present, samples on, just below and
\* just above each threshold
EvalSLAs == {[k \in S |-> FullSLA[k]] : S \in SUBSET (DOMAIN FullSLA)}
EvalMetrics == [latency : {49, 50, 51},
                availability : {9989, 9990, 9991},
                bandwidth : {99, 100, 101}]
EvalDb == [i \in Persisted |-> Row(FullSLA, "deployed")]

InitEval ==
    /\ db = EvalDb
    /\ telemetry_state = [i \in Intents |-> NoMetrics]
    /\ rpc = [r \in Live |-> "idle"]
    /\ kind = [r \in Live |-> "structured"]
    /\ policy = [r \in Live |-> NoPolicy]
    /\ lpc = "evaluate"
    /\ samples = 1
    /\ rows = <<>>
    /\ intent_id = 1
    /\ metrics \in EvalMetrics
    /\ intent \in {[sla |-> s] : s \in EvalSLAs}
    /\ attempt = 0
    /\ backoff = BackoffStart
    /\ sleeps = <<>>
    /\ new_policy = NoPolicy
    /\ listed = <<>>
    /\ sampled = {}
    /\ pre = NoRow
    /\ executor_called = FALSE
    /\ NoCalls

NextEval == LoopEvaluate

SpecEval == InitEval /\ [][NextEval]_vars

\* ------------------------------- store.py, one statement at a time
\* Two threads call the store on the same intent; each call is the body of
\* its function: take _db_lock, (SELECT the log,) UPDATE and commit, release.
Call(op, id, msg, status, p) ==
    [op |-> op, id |-> id, msg |-> msg, status |-> status, policy |-> p]

\* calls of the request path after the executor answered (main.py:79-90) and
\* of the loop while it processes a listed intent (assurance.py:88-127)
CallsOf(t) ==
    IF t = "request"
    THEN {Call("append_audit", i, "Policy applied successfully", "", NoPolicy) : i \in Persisted}
         \cup {Call("update_status", i, "", "error", NoPolicy) : i \in Persisted}
    ELSE {Call("append_audit", i, "SLA breach", "", NoPolicy) : i \in Persisted}
         \cup {Call("update_status", i, "", "assured", NoPolicy) : i \in Persisted}
         \cup {Call("attach_policy", i, "", "", [intent_id |-> i]) : i \in Persisted}
CallSeqs(t) ==
    {<<c>> : c \in CallsOf(t)} \cup {<<c, d>> : c \in CallsOf(t), d \in CallsOf(t)}

\* mutant of Acquirable: the lock is not taken
LockIgnored == TRUE

\* store.py:26,45,51,57  with _db_lock: blocks until the lock is free
Acquirable == _db_lock = "free"

GoCall(t, to) == spc' = [spc EXCEPT ![t] = to]

\* with _db_lock: (enter)
StoreEnter(t) ==
    /\ spc[t] = "idle"
    /\ calls[t] # <<>>
    /\ Acquirable
    /\ _db_lock' = t
    /\ GoCall(t, "locked")
    /\ UNCHANGED <<db, calls, log, committed, reqVars, loopVars>>

\* store.py:58-63  append_audit: SELECT audit_log, return when there is no
\* row, else log = json.loads(...); log.append(msg)
StoreSelect(t) ==
    /\ spc[t] = "locked"
    /\ Head(calls[t]).op = "append_audit"
    /\ IF Head(calls[t]).id \in DOMAIN db
       THEN /\ log' = [log EXCEPT ![t] = Append(db[Head(calls[t]).id].audit_log,
                                                Head(calls[t]).msg)]
            /\ GoCall(t, "fetched")
       ELSE /\ log' = log
            /\ GoCall(t, "exit")
    /\ UNCHANGED <<db, _db_lock, calls, committed, reqVars, loopVars>>

\* store.py:46-47, 52-53, 64-65  UPDATE ... WHERE intent_id=?; conn.commit(),
\* or an exception that leaves the with block
StoreUpdate(t) ==
    /\ calls[t] # <<>>
    /\ \/ /\ spc[t] = "fetched"
          /\ \/ /\ db' = [db EXCEPT ![Head(calls[t]).id].audit_log = log[t]]
                /\ committed' = Append(committed, Head(calls[t]).msg)
             \/ /\ Raise
                /\ committed' = committed
       \/ /\ spc[t] = "locked"
          /\ Head(calls[t]).op = "update_status"
          /\ \/ db' = update_status(db, Head(calls[t]).id, Head(calls[t]).status)
             \/ Raise
          /\ committed' = committed
       \/ /\ spc[t] = "locked"
          /\ Head(calls[t]).op = "attach_policy"
          /\ \/ db' = attach_policy(db, Head(calls[t]).id, Head(calls[t]).policy)
             \/ Raise
          /\ committed' = committed
    /\ GoCall(t, "exit")
    /\ UNCHANGED <<_db_lock, calls, log, reqVars, loopVars>>

\* leaving the with block releases the lock; the call returns
StoreExit(t) ==
    /\ spc[t] = "exit"
    /\ _db_lock' = "free"
    /\ calls' = [calls EXCEPT ![t] = Tail(calls[t])]
    /\ log' = [log EXCEPT ![t] = <<>>]
    /\ GoCall(t, "idle")
    /\ UNCHANGED <<db, committed, reqVars, loopVars>>

InitStore ==
    /\ db = EvalDb
    /\ telemetry_state = [i \in Intents |-> NoMetrics]
    /\ rpc = [r \in Live |-> "idle"]
    /\ kind = [r \in Live |-> "structured"]
    /\ policy = [r \in Live |-> NoPolicy]
    /\ lpc = "list"
    /\ samples = 0
    /\ rows = <<>>
    /\ intent_id = 0
    /\ metrics = NoMetrics
    /\ intent = [sla |-> EmptySLA]
    /\ attempt = 0
    /\ backoff = BackoffStart
    /\ sleeps = <<>>
    /\ new_policy = NoPolicy
    /\ listed = <<>>
    /\ sampled = {}
    /\ pre = NoRow
    /\ executor_called = FALSE
    /\ _db_lock = "free"
    /\ calls \in {c \in [Threads -> UNION {CallSeqs(t) : t \in Threads}] :
                    \A t \in Threads : c[t] \in CallSeqs(t)}
    /\ spc = [t \in Threads |-> "idle"]
    /\ log = [t \in Threads |-> <<>>]
    /\ committed = <<>>

NextStore ==
    \/ \E t \in Threads : StoreEnter(t)
    \/ \E t \in Threads : StoreSelect(t)
    \/ \E t \in Threads : StoreUpdate(t)
    \/ \E t \in Threads : StoreExit(t)

SpecStore == InitStore /\ [][NextStore]_vars

\* ------------------------------------------------------------------ claims
AuditOf(d, i) == IF i \in DOMAIN d THEN d[i].audit_log ELSE <<>>
IsPrefix(a, b) == Len(a) <= Len(b) /\ SubSeq(b, 1, Len(a)) = a

\* the loop writes the telemetry cache / evaluates the SLA in this step
SamplesNow == lpc = "sample" /\ lpc' = "get_intent"
EvaluatesNow == lpc = "evaluate" /\ lpc' \in {"audit_breach", "set_assured"}

\* C1: whenever the loop samples or evaluates an intent, that intent's status
\* in the store is deployed or assured at that moment.
C1_SampledOnlyWhenEligible ==
    [][(SamplesNow \/ EvaluatesNow) => db[intent_id].status \in Eligible]_vars

\* C2: error is terminal: no step changes a stored status error to another
\* status.
C2_ErrorIsTerminal ==
    [][\A i \in DOMAIN db : db[i].status = "error" => db'[i].status = "error"]_vars

\* C3: when the loop completes a fully successful remediation of an intent
\* (breach, translate ok, attach ok, applied), the status is deployed and the
\* audit trail is the trail from before the processing plus exactly the
\* breach, attached and applied entries, in this order.
C3_SuccessfulRemediation ==
    [][(lpc = "audit_applied" /\ lpc' = "for") =>
          /\ db'[intent_id].status = "deployed"
          /\ db'[intent_id].audit_log =
                pre.audit_log \o <<"SLA breach",
                                   "LLM produced remediation policy and attached",
                                   "Remediation applied successfully">>]_vars

\* C4: when the loop completes a breach processing in which the translator
\* failed on all 3 attempts, the status is the one from before the
\* processing, exactly the breach and the remediation-failed entries were
\* added, the attached policy is unchanged and the executor was not invoked.
C4_TranslationExhausted ==
    [][(lpc = "audit_llm_failed" /\ lpc' = "for") =>
          /\ db'[intent_id].status = pre.status
          /\ db'[intent_id].audit_log =
                pre.audit_log \o <<"SLA breach",
                                   "Remediation failed: LLM unavailable or error">>
          /\ db'[intent_id].policy = pre.policy
          /\ ~executor_called]_vars

\* C5: the step that ends the processing of a sampled intent whose sample does
\* not breach its SLA leaves that intent in status assured.
C5_NoBreachAssured ==
    [][(lpc = "set_assured" /\ lpc' = "for") =>
          db'[intent_id].status = "assured"]_vars

C5_Witness ==
    /\ lpc = "for"
    /\ intent_id \in DOMAIN db
    /\ pre.status = "deployed"
    /\ metrics = SampleOk
    /\ ~_should_remediate(intent.sla, metrics)
    /\ db[intent_id].status = "assured"

\* C6: every step leaves every intent's audit trail as it was or extends it:
\* the trail before the step is a prefix of the trail after it.
C6_AuditAppendOnly ==
    [][\A i \in Intents : IsPrefix(AuditOf(db, i), AuditOf(db', i))]_vars

C6_Witness ==
    \E i \in DOMAIN db :
        /\ Len(db[i].audit_log) >= 4
        /\ db[i].audit_log[1] = "Policy applied successfully"
        /\ db[i].audit_log[2] = "SLA breach"

\* C7: a failure while one intent is processed never ends the tick before
\* every eligible intent listed in it was sampled.
C7_FailureKeepsTick ==
    lpc \in {"sleep", "crashed"} =>
        \A k \in 1..Len(listed) :
            listed[k].status \in Eligible => listed[k].intent_id \in sampled

\* C8: the loop never terminates on an error.
C8_LoopNeverTerminates == lpc # "crashed"

Evaluated == lpc \in {"audit_breach", "set_assured"}
Breach == lpc = "audit_breach"

\* C9: for an SLA with the three thresholds, the evaluator reports a breach
\* exactly when latency > ceiling or availability < floor or bandwidth < floor
\* (so never when all three are within bounds, equality included), and the
\* evaluation changes nothing in the store or the telemetry cache.
C9_BreachExactly ==
    (Evaluated /\ DOMAIN intent.sla = DOMAIN FullSLA) =>
        /\ Breach <=> \/ metrics.latency > intent.sla.latency_ms
                      \/ metrics.availability < intent.sla.availability_pct
                      \/ metrics.bandwidth < intent.sla.min_bandwidth_mbps
        /\ db = EvalDb
        /\ telemetry_state = [i \in Intents |-> NoMetrics]

C9_Witness ==
    /\ Evaluated
    /\ ~Breach
    /\ intent.sla = FullSLA
    /\ metrics = [latency |-> 50, availability |-> 9990, bandwidth |-> 100]

\* a present threshold that the sample violates
Violates(sla, m, k) ==
    /\ k \in DOMAIN sla
    /\ CASE k = "latency_ms" -> m.latency > sla[k]
         [] k = "availability_pct" -> m.availability < sla[k]
         [] OTHER -> m.bandwidth < sla[k]

\* C10: for an SLA with some thresholds missing, the evaluator reports a
\* breach exactly when a present threshold is violated; with all three
\* missing it never reports one.
C10_MissingFieldsPermissive ==
    (Evaluated /\ DOMAIN intent.sla # DOMAIN FullSLA) =>
        (Breach <=> \E k \in DOMAIN FullSLA : Violates(intent.sla, metrics, k))

C10_Witness ==
    /\ Evaluated
    /\ ~Breach
    /\ DOMAIN intent.sla = {}
    /\ metrics = [latency |-> 51, availability |-> 9989, bandwidth |-> 99]

\* the sleeps _call_llm_with_retries has taken after n failed attempts:
\* 1.0, then 1.5 (in quarters of a time unit)
BackoffSchedule == <<4, 6>>
SleepsAfter(n) == SubSeq(BackoffSchedule, 1, n)

\* C11: _call_llm_with_retries invokes the translator at most 3 times; it
\* returns the policy of the first successful attempt (no attempt follows
\* it), re-raises after the third failure, and has slept 1.0 after the first
\* failure and 1.5 after the second, never after the third.
C11_BoundedRetries ==
    /\ lpc = "translate" =>
          /\ attempt \in 0..2
          /\ sleeps = SleepsAfter(attempt)
    /\ lpc = "attach" =>
          /\ attempt \in 0..2
          /\ new_policy \in Policies
          /\ sleeps = SleepsAfter(attempt)
    /\ lpc = "audit_llm_failed" =>
          /\ attempt = 3
          /\ new_policy = NoPolicy
          /\ sleeps = <<4, 6>>

C11_Witness ==
    /\ lpc = "audit_llm_failed"
    /\ attempt = 3
    /\ sleeps = <<4, 6>>

\* positions of the loop inside the remediation of the current intent
RemediationPcs ==
    {"audit_breach", "translate", "audit_llm_failed", "attach", "audit_attached",
     "audit_attach_failed", "apply", "set_deployed", "audit_applied",
     "audit_apply_failed", "audit_apply_error", "audit_apply_raised"}

\* C12: the loop handles one intent at a time: its current intent changes
\* only at the for statement, and a remediation in progress is left only by
\* completing (back at the for statement) or by the loop ending; so at most
\* one remediation is in flight, and the next intent is not sampled before
\* the current one is done.
C12_SequentialProcessing ==
    [][/\ intent_id' # intent_id => lpc = "for"
       /\ lpc \in RemediationPcs =>
             lpc' \in RemediationPcs \cup {"for", "crashed"}]_vars

C12_Witness ==
    /\ lpc = "sample"
    /\ intent_id = 2
    /\ 1 \in sampled
    /\ Len(db[1].audit_log) >= 4
    /\ db[1].audit_log[2] = "SLA breach"

\* C13: store mutations on one intent are atomic with respect to each other:
\* at most one thread is inside a store call, and no append is lost: the
\* stored trail is exactly the messages whose append took effect, in the
\* order they took effect.
C13_StoreCallsAtomic ==
    /\ \A t \in Threads : \A u \in Threads :
          (spc[t] # "idle" /\ spc[u] # "idle") => t = u
    /\ \A i \in DOMAIN db : db[i].audit_log = committed

C13_Witness ==
    /\ \A t \in Threads : calls[t] = <<>> /\ spc[t] = "idle"
    /\ db[1].audit_log = <<"SLA breach", "Policy applied successfully",
                           "SLA breach", "Policy applied successfully">>

\* the status changes of the lifecycle state machine
Statuses == {"submitted", "deploying", "deployed", "assured", "error"}
Lifecycle ==
    {<<"submitted", "deploying">>, <<"deploying", "deployed">>,
     <<"deployed", "assured">>, <<"assured", "assured">>,
     <<"assured", "deployed">>, <<"deployed", "deployed">>}
    \cup {<<s, "error">> : s \in Statuses}

\* C14: every intent is created in status submitted, and every step that
\* changes a stored status makes one of the changes of the lifecycle state
\* machine.
C14_LifecycleTransitions ==
    [][/\ \A i \in DOMAIN db' \ DOMAIN db : db'[i].status = "submitted"
       /\ \A i \in DOMAIN db :
             db'[i].status # db[i].status =>
                <<db[i].status, db'[i].status>> \in Lifecycle]_vars

\* the audit entries the loop writes
LoopMessages ==
    {"SLA breach", "Remediation failed: LLM unavailable or error",
     "LLM produced remediation policy and attached",
     "Remediation failed: cannot attach policy",
     "Remediation applied successfully", "Remediation application failed",
     "Remediation application error"}
IsLoopMessage(m) == m \in LoopMessages
\* the entries the loop added to the trail of its current intent since it
\* sampled it, as they stand after this step
LoopAdded ==
    SelectSeq(SubSeq(db'[intent_id].audit_log, Len(pre.audit_log) + 1,
                     Len(db'[intent_id].audit_log)),
              IsLoopMessage)
\* this step is a step of the loop that moves it on
LoopMoves == lpc' # lpc
StatusesKept == \A i \in DOMAIN db : db'[i].status = db[i].status

\* C15: in a remediation where the executor reports applied=false or raises,
\* no step of the loop writes a status (the only remediation step that does
\* is the one after applied=true); when the failure entry is written the
\* loop's entries for this intent are breach, attached, failure, in this
\* order, and the policy attached by this remediation is still the stored
\* one.
C15_ApplicationFailure ==
    [][/\ (LoopMoves /\ lpc \in RemediationPcs \ {"set_deployed"}) => StatusesKept
       /\ (lpc = "audit_apply_failed" /\ lpc' = "for") =>
             /\ LoopAdded = <<"SLA breach",
                              "LLM produced remediation policy and attached",
                              "Remediation application failed">>
             /\ db'[intent_id].policy = new_policy
       /\ (lpc = "audit_apply_raised" /\ lpc' = "for") =>
             /\ LoopAdded = <<"SLA breach",
                              "LLM produced remediation policy and attached",
                              "Remediation application error">>
             /\ db'[intent_id].policy = new_policy]_vars

C15_Witness ==
    /\ lpc = "for"
    /\ intent_id = 1
    /\ executor_called
    /\ new_policy # pre.policy
    /\ db[1].policy = new_policy
    /\ db[1].status = pre.status
    /\ db[1].audit_log = pre.audit_log \o
           <<"SLA breach", "LLM produced remediation policy and attached",
             "Remediation application failed">>

\* C16: when attaching the translated policy fails, the loop goes to its
\* handler; the handler's entry makes the loop's entries for this intent
\* breach, cannot-attach, the remediation of the intent stops there with
\* the executor never invoked, and no step of it writes a status.
C16_AttachFailure ==
    [][/\ (LoopMoves /\ lpc \in {"audit_breach", "translate", "attach",
                                  "audit_attached", "audit_attach_failed"})
             => StatusesKept
       /\ (LoopMoves /\ lpc = "audit_attach_failed") =>
             /\ lpc' \notin RemediationPcs
             /\ ~executor_called'
       /\ (lpc = "audit_attach_failed" /\ lpc' = "for") =>
             LoopAdded = <<"SLA breach",
                           "Remediation failed: cannot attach policy">>]_vars

C16_Witness ==
    /\ lpc = "for"
    /\ intent_id = 1
    /\ new_policy \in Policies
    /\ ~executor_called
    /\ db[1].status = pre.status
    /\ db[1].policy = pre.policy
    /\ db[1].audit_log = pre.audit_log \o
           <<"SLA breach", "Remediation failed: cannot attach policy">>

\* C17: in every reachable state the policy stored for an intent, if any,
\* carries that intent's identifier.
C17_PolicyOneToOne ==
    \A i \in DOMAIN db :
        db[i].policy # NoPolicy => db[i].policy.intent_id = i

\* the loop's current intent was listed in this tick as deployed or assured
ListedEligible ==
    \E k \in 1..Len(listed) :
        listed[k].intent_id = intent_id /\ listed[k].status \in Eligible

\* C18: the loop is at the translator or the executor only for an intent
\* listed as deployed or assured whose sample the evaluator reported as a
\* breach; without a breach it goes from the evaluation to the status write
\* and back to the for statement, and of the whole store it writes only that
\* intent's status: no audit entry, no policy.
C18_RemediationOnlyOnBreach ==
    [][/\ lpc \in {"translate", "apply"} =>
             /\ _should_remediate(intent.sla, metrics)
             /\ ListedEligible
       /\ (LoopMoves /\ lpc = "evaluate" /\ ~_should_remediate(intent.sla, metrics)) =>
             /\ lpc' = "set_assured"
             /\ db' = db
       /\ (LoopMoves /\ lpc \in {"sample", "get_intent"}) => db' = db
       /\ (LoopMoves /\ lpc = "set_assured") =>
             /\ lpc' \notin RemediationPcs
             /\ ~executor_called'
             /\ \/ db' = db
                \/ db' = [db EXCEPT ![intent_id].status = "assured"]]_vars

C18_Witness ==
    /\ lpc = "for"
    /\ intent_id = 2
    /\ ListedEligible
    /\ ~_should_remediate(intent.sla, metrics)
    /\ ~executor_called
    /\ attempt = 0
    /\ pre.status = "deployed"
    /\ db[2] = [pre EXCEPT !.status = "assured"]

\* the entries by which the request path audits a failed application
ApplicationFailedMessages ==
    {"Policy application failed", "Policy application failed (from NL)"}
ApplicationFailureMessages ==
    ApplicationFailedMessages \cup {"Policy application exception"}
Count(trail, msgs) == Cardinality({k \in 1..Len(trail) : trail[k] \in msgs})

\* C19: whichever endpoint created the intent, a request that has audited
\* applied=false ends with the intent in status error and exactly one
\* application-failure entry in its trail.
C19_SamePipeline ==
    \A r \in Live :
        (/\ rpc[r] = "done"
         /\ r \in DOMAIN db
         /\ Count(db[r].audit_log, ApplicationFailedMessages) > 0)
        => /\ db[r].status = "error"
           /\ Count(db[r].audit_log, ApplicationFailureMessages) = 1

\* C20: in every reachable state an intent in status deploying, deployed or
\* assured has a policy attached (its policy column is not null).
C20_ActiveHasPolicy ==
    \A i \in DOMAIN db :
        db[i].status \in {"deploying", "deployed", "assured"} =>
            db[i].policy # NoPolicy

C20_Witness ==
    /\ 2 \in DOMAIN db
    /\ db[2].status = "deploying"
    /\ db[2].policy \in Policies
    /\ rpc[2] = "apply"

\* the request path's creation-success entries
CreationSuccessMessages ==
    {"Policy applied successfully", "Policy applied successfully (from NL)"}

\* C21: in the trail of every intent created by a request, the request's
\* 'Policy applied successfully' entry stands before every entry written by
\* the loop.
C21_SuccessEntryFirst ==
    \A r \in Live \cap DOMAIN db :
        \A j \in 1..Len(db[r].audit_log) :
            \A k \in 1..Len(db[r].audit_log) :
                (/\ db[r].audit_log[j] \in CreationSuccessMessages
                 /\ db[r].audit_log[k] \in LoopMessages) => j < k
====
